---- MODULE Spec2Model ----
(***************************************************************************)
(* A model of slice.py: the timestamp pipeline that turns a table of       *)
(* (start, end, label) rows into an ffmpeg select command and a key file   *)
(* on the output timeline.                                                 *)
(*                                                                         *)
(* Conventions.  A Python str is a sequence of one-character strings       *)
(* (<<"0", ":", "1", "0">> is "0:10").  A Python float of seconds is an    *)
(* integer number of milliseconds; the inputs of the model carry at most   *)
(* three fractional digits and fuzz is a multiple of 750 ms, so every      *)
(* value of a run is a whole number of milliseconds, exactly representable *)
(* both here and as a binary float sum in the program.                     *)
(***************************************************************************)
EXTENDS Integers, Sequences, FiniteSets, TLC

\* Largest number of rows of the input table.
MaxSegs == 3
\* Largest fuzz argument, in units of 750 ms.
MaxFuzz == 2

-----------------------------------------------------------------------------
(* Text helpers: the pieces of str, int and "%0nd" formatting used below.  *)

Digits == <<"0", "1", "2", "3", "4", "5", "6", "7", "8", "9">>

IsDigit(c) == \E i \in 1..10 : Digits[i] = c

DigitVal(c) == (CHOOSE i \in 1..10 : Digits[i] = c) - 1

AllDigits(t) == \A i \in 1..Len(t) : IsDigit(t[i])

RECURSIVE NumVal(_)
\* int(t) of a digit string.
NumVal(t) ==
    IF t = <<>> THEN 0
    ELSE NumVal(SubSeq(t, 1, Len(t) - 1)) * 10 + DigitVal(t[Len(t)])

RECURSIVE IntText(_)
\* "%d" % n for n >= 0.
IntText(n) ==
    IF n < 10 THEN <<Digits[n + 1]>>
    ELSE IntText(n \div 10) \o <<Digits[(n % 10) + 1]>>

\* "%d" % n for any n.
SignedText(n) == IF n < 0 THEN <<"-">> \o IntText(0 - n) ELSE IntText(n)

RECURSIVE Zeros(_)
Zeros(k) == IF k <= 0 THEN <<>> ELSE <<"0">> \o Zeros(k - 1)

\* str.rjust(w, '0')
rjust(t, w) == Zeros(w - Len(t)) \o t

\* "%0wd" % n for n >= 0.
PadText(n, w) == rjust(IntText(n), w)

RECURSIVE Pow10(_)
Pow10(k) == IF k <= 0 THEN 1 ELSE 10 * Pow10(k - 1)

\* str.replace(old, new) for one-character old and new.
replace(t, old, new) == [i \in 1..Len(t) |-> IF t[i] = old THEN new ELSE t[i]]

RECURSIVE Fields(_, _)
\* The maximal runs of t between the characters of seps (str.split on a set).
Fields(t, seps) ==
    LET idx == {i \in 1..Len(t) : t[i] \in seps}
    IN  IF idx = {} THEN <<t>>
        ELSE LET i == CHOOSE j \in idx : \A k \in idx : j <= k
             IN  <<SubSeq(t, 1, i - 1)>> \o Fields(SubSeq(t, i + 1, Len(t)), seps)

\* The characters of seps in t, in order.
SepsOf(t, seps) == SelectSeq(t, LAMBDA c : c \in seps)

RECURSIVE Join(_, _)
\* sep.join(ts)
Join(ts, sep) ==
    IF ts = <<>> THEN <<>>
    ELSE IF Len(ts) = 1 THEN ts[1]
    ELSE ts[1] \o sep \o Join(Tail(ts), sep)

Max(a, b) == IF a >= b THEN a ELSE b

-----------------------------------------------------------------------------
(* datetime.strptime and str(datetime.timedelta), as far as slice.py uses  *)
(* them.                                                                   *)

Directives == {"%H", "%M", "%S", "%f"}

Literals == {":", ".", ","}

\* One field of the data against one directive: the regular expression of the
\* directive and the range check of the datetime constructor.
FieldOk(d, f) ==
    /\ f # <<>>
    /\ AllDigits(f)
    /\ CASE d = "%H" -> Len(f) <= 2 /\ NumVal(f) <= 23
         [] d = "%M" -> Len(f) <= 2 /\ NumVal(f) <= 59
         [] d = "%S" -> Len(f) <= 2 /\ NumVal(f) <= 59
         [] d = "%f" -> Len(f) <= 6

\* The part of the elapsed time one field contributes, in milliseconds (%f is
\* microseconds; the inputs of the model have no digit below the millisecond).
FieldMs(d, f) ==
    CASE d = "%H" -> NumVal(f) * 3600 * 1000
      [] d = "%M" -> NumVal(f) * 60 * 1000
      [] d = "%S" -> NumVal(f) * 1000
      [] d = "%f" -> (NumVal(f) * Pow10(6 - Len(f))) \div 1000

RECURSIVE SumFields(_, _, _)
SumFields(ds, fs, i) ==
    IF i > Len(ds) THEN 0 ELSE FieldMs(ds[i], fs[i]) + SumFields(ds, fs, i + 1)

\* datetime.strptime(t, fmt) - datetime(1900, 1, 1), total_seconds().
\* fmt is a sequence of directives and literal characters, or <<>> for None.
\* err is TRUE where strptime raises (TypeError for None, ValueError else).
strptime(t, fmt) ==
    LET ds == SelectSeq(fmt, LAMBDA x : x \in Directives)
        ls == SelectSeq(fmt, LAMBDA x : x \in Literals)
        fs == Fields(t, Literals)
        ok == /\ fmt # <<>>
              /\ SepsOf(t, Literals) = ls
              /\ Len(fs) = Len(ds)
              /\ \A i \in 1..Len(ds) : FieldOk(ds[i], fs[i])
    IN  IF ok THEN [err |-> FALSE, val |-> SumFields(ds, fs, 1)]
        ELSE [err |-> TRUE, val |-> 0]

\* str(datetime.timedelta(seconds = ms / 1000)): days (floor), H:MM:SS, and
\* the six microsecond digits only when they are not zero.
timedelta_str(ms) ==
    LET day  == 24 * 3600 * 1000
        days == ms \div day
        rest == ms % day
        hh   == rest \div (3600 * 1000)
        mm   == (rest \div (60 * 1000)) % 60
        ss   == (rest \div 1000) % 60
        us   == (rest % 1000) * 1000
        hms  == IntText(hh) \o <<":">> \o PadText(mm, 2) \o <<":">> \o PadText(ss, 2)
        plural == IF days = 1 \/ days = 0 - 1 THEN <<>> ELSE <<"s">>
        dd   == IF days = 0 THEN <<>>
                ELSE SignedText(days) \o <<" ", "d", "a", "y">> \o plural \o <<",", " ">>
    IN  dd \o hms \o (IF us = 0 THEN <<>> ELSE <<".">> \o PadText(us, 6))

-----------------------------------------------------------------------------
(* slice.py: utilities.                                                    *)

\* time_formats.get(len(ts)) of parse_secs; <<>> is None.
time_formats(n) ==
    CASE n = 4  -> <<"%M", ":", "%S">>
      [] n = 5  -> <<"%M", ":", "%S">>
      [] n = 8  -> <<"%H", ":", "%M", ":", "%S">>
      [] n = 9  -> <<"%M", ":", "%S", ".", "%f">>
      [] n = 12 -> <<"%H", ":", "%M", ":", "%S", ".", "%f">>
      [] OTHER  -> <<>>

\* parse_secs(ts): [err, val] with val in milliseconds.
parse_secs(ts) == strptime(ts, time_formats(Len(ts)))

\* fz without the floor at 0.
fz_noclamp(ts, fuzz, func) ==
    IF func = "+" THEN ts + fuzz ELSE IF func = "-" THEN ts - fuzz ELSE ts

\* fz(ts, fuzz, func)
fz(ts, fuzz, func) ==
    LET t == IF func = "+" THEN ts + fuzz ELSE IF func = "-" THEN ts - fuzz ELSE ts
    IN  IF t <= 0 THEN 0 ELSE t

ZeroSrt == <<"0", "0", ":", "0", "0", ":", "0", "0", ",", "0", "0", "0">>

\* conv_time(input) for a number: seconds to an .srt time string.
conv_time_num(input) ==
    IF input = 0 THEN ZeroSrt
    ELSE LET t1 == replace(timedelta_str(input), ".", ",")
             t2 == IF Len(t1) \in {6, 7}
                   THEN t1 \o <<",", "0", "0", "0", "0", "0", "0">>
                   ELSE t1
             t3 == SubSeq(t2, 1, Len(t2) - 3)
         IN  rjust(t3, 12)

\* conv_time(input) for a str: an .srt time string to seconds, [err, val].
conv_time_str(input) ==
    IF input = ZeroSrt THEN [err |-> FALSE, val |-> 0]
    ELSE strptime(input, <<"%H", ":", "%M", ":", "%S", ",", "%f">>)

-----------------------------------------------------------------------------
(* slice.py: the two parsers of the table and the command builder.         *)

\* A row of the table raises in parse_secs.
RowRaises(row) == parse_secs(row[1]).err \/ parse_secs(row[2]).err

\* The list comprehension over tsdata raises (the first bad row ends it).
ParseRaises(tsdata) == \E i \in 1..Len(tsdata) : RowRaises(tsdata[i])

\* parse_data_ffmpeg with the pairs re-based by the least start, as the key is.
parse_data_ffmpeg_rebased(tsdata, fuzz) ==
    LET conv == [i \in 1..Len(tsdata) |->
                   <<fz(parse_secs(tsdata[i][1]).val, fuzz, "-"),
                     fz(parse_secs(tsdata[i][2]).val, fuzz, "+")>>]
        lo == CHOOSE m \in {conv[i][1] : i \in 1..Len(conv)} :
                 \A i \in 1..Len(conv) : m <= conv[i][1]
    IN  [i \in 1..Len(conv) |-> <<conv[i][1] - lo, conv[i][2] - lo>>]

\* parse_data_ffmpeg(tsdata, fuzz), for tsdata that does not raise.
parse_data_ffmpeg(tsdata, fuzz) ==
    [i \in 1..Len(tsdata) |->
       <<fz(parse_secs(tsdata[i][1]).val, fuzz, "-"),
         fz(parse_secs(tsdata[i][2]).val, fuzz, "+")>>]

\* tsconv_keys of parse_data_key.
tsconv_keys(tsdata, fuzz) ==
    [i \in 1..Len(tsdata) |->
       <<fz(parse_secs(tsdata[i][1]).val, fuzz, "-"),
         fz(parse_secs(tsdata[i][2]).val, fuzz, "+"),
         tsdata[i][3]>>]

\* min(tsconv_keys, key = lambda x: x[0])[0]; raises on an empty list.
tsmin(tk) ==
    CHOOSE m \in {tk[i][1] : i \in 1..Len(tk)} : \A i \in 1..Len(tk) : m <= tk[i][1]

\* tsshift with the duration taken from the re-based end and the absolute start.
tsshift_dur_of_start(tk) ==
    LET lo == tsmin(tk)
    IN  [i \in 1..Len(tk) |-> <<tk[i][1] - lo, tk[i][2] - lo, tk[i][2] - lo - tk[i][1], tk[i][3]>>]

\* tsshift before sorting: (x - tsmin, y - tsmin, y - x, lab).
tsshift(tk) ==
    LET lo == tsmin(tk)
    IN  [i \in 1..Len(tk) |->
           <<tk[i][1] - lo, tk[i][2] - lo, tk[i][2] - tk[i][1], tk[i][3]>>]

\* sorted left out: the rows stay in input order.
unsorted(s) == s

RECURSIVE sorted(_)
\* sorted(s, key = lambda x: x[0]): stable, an element goes after every
\* element already placed whose key is not larger.
sorted(s) ==
    IF s = <<>> THEN <<>>
    ELSE LET front == sorted(SubSeq(s, 1, Len(s) - 1))
             e     == s[Len(s)]
             k     == Cardinality({i \in 1..Len(front) : front[i][1] <= e[1]})
         IN  SubSeq(front, 1, k) \o <<e>> \o SubSeq(front, k + 1, Len(front))

\* The loop without the cursor: every row keeps its re-based start.
gap_loop_keep_start(ts, n) ==
    [i \in 1..n |-> <<ts[i][1], ts[i][1] + ts[i][3], ts[i][4]>>]

RECURSIVE gap_loop(_, _)
\* ts_keys after the first n iterations of the loop of parse_data_key.
gap_loop(ts, n) ==
    IF n = 0 THEN <<>>
    ELSE LET ts_keys  == gap_loop(ts, n - 1)
             prev_ts2 == IF n = 1 THEN 0 ELSE ts_keys[n - 1][2]
         IN  Append(ts_keys, <<prev_ts2, prev_ts2 + ts[n][3], ts[n][4]>>)

\* ts_keys of parse_data_key: the output timeline in milliseconds.
gap_closed(tsdata, fuzz) ==
    LET ts == sorted(tsshift(tsconv_keys(tsdata, fuzz)))
    IN  gap_loop(ts, Len(ts))

\* unidecode of one character: ASCII is kept, "e_acute" stands for U+00E9.
Translit(c) == IF c = "e_acute" THEN "e" ELSE c

\* unidecode(lab)
unidecode(lab) == [i \in 1..Len(lab) |-> Translit(lab[i])]

\* tsshift_key: the rows parse_data_key returns.
to_srt_rows(keys) ==
    [i \in 1..Len(keys) |->
       <<conv_time_num(keys[i][1]), conv_time_num(keys[i][2]), unidecode(keys[i][3])>>]

\* parse_data_key(tsdata, fuzz), for non-empty tsdata that does not raise.
parse_data_key(tsdata, fuzz) == to_srt_rows(gap_closed(tsdata, fuzz))

\* f'{x}' of a value of ts_ffmpeg: fz returns the int 0 when it clamps and a
\* positive float otherwise; a float prints with at least one fractional
\* digit and no trailing zeros.
NumText(ms) ==
    IF ms = 0 THEN <<"0">>
    ELSE LET frac == ms % 1000
             f3   == PadText(frac, 3)
             keep == IF frac % 100 = 0 THEN 1 ELSE IF frac % 10 = 0 THEN 2 ELSE 3
         IN  IntText(ms \div 1000) \o <<".">> \o SubSeq(f3, 1, keep)

\* f'between(t,{x},{y})'; literal pieces of the source are kept as one chunk.
between(x, y) == <<"between(t,">> \o NumText(x) \o <<",">> \o NumText(y) \o <<")">>

\* output_filename(filein) for a path <<basename, ext>>.
output_filename(filein) == <<filein[1], "_out", filein[2]>>

\* ts_to_cmd(ts, filein, av): the argument vector, one text per argument.
ts_to_cmd(ts, filein, av) ==
    LET fileout == output_filename(filein)
        cmd  == Join([i \in 1..Len(ts) |-> between(ts[i][1], ts[i][2])], <<"+">>)
        vcmd == <<"select='">> \o cmd \o <<"',setpts=N/FRAME_RATE/TB">>
        acmd == <<"aselect='">> \o cmd \o <<"',asetpts=N/SR/TB">>
    IN  IF av = "video"
        THEN << <<"ffmpeg">>, <<"-y">>, <<"-i">>, filein, <<"-vf">>, vcmd,
                <<"-af">>, acmd, fileout >>
        ELSE << <<"ffmpeg">>, <<"-y">>, <<"-i">>, filein, <<"-af">>, acmd, fileout >>

\* The lines write_key writes: the header row, then the rows of key.
key_lines(key) == << <<"ts1", "ts2", "clip_description">> >> \o key

-----------------------------------------------------------------------------
(* The inputs of a run.                                                    *)

\* The first row of the end-to-end example: 10 s to 12 s.
Row1 ==
    << <<"0", "0", ":", "0", "0", ":", "1", "0">>,
       <<"0", "0", ":", "0", "0", ":", "1", "2">>,
       <<"i", "n", "t", "r", "o">> >>

\* The second row of the example, with a non-ASCII label: 20 s to 21 s.
Row2 ==
    << <<"0", "0", ":", "2", "0">>,
       <<"0", "0", ":", "2", "1">>,
       <<"c", "a", "f", "e_acute">> >>

\* Starts with the first row, holds it and touches the second: 10 s to 20 s.
Row3 ==
    << <<"0", ":", "1", "0">>,
       <<"0", ":", "2", "0">>,
       <<"b">> >>

\* Ends before it starts: 15.5 s to 12.25 s.
Row4 ==
    << <<"0", "0", ":", "1", "5", ".", "5", "0", "0">>,
       <<"0", "0", ":", "1", "2", ".", "2", "5", "0">>,
       <<"r">> >>

\* Ten hours, from half a second into the file.
Row5 ==
    << <<"0", "0", ":", "0", "0", ":", "0", "0", ".", "5", "0", "0">>,
       <<"1", "0", ":", "0", "0", ":", "0", "0", ".", "5", "0", "0">>,
       <<"l", "o", "n", "g">> >>

\* A start of length 3, which no format matches.
Row6 ==
    << <<"1", ":", "2">>,
       <<"0", "0", ":", "0", "5">>,
       <<"x">> >>

Rows == {Row1, Row2, Row3, Row4, Row5, Row6}

RECURSIVE TablesOfLen(_)
TablesOfLen(n) ==
    IF n = 0 THEN {<<>>}
    ELSE {Append(t, r) : t \in TablesOfLen(n - 1), r \in Rows}

\* What import_data can return: the rows of the table, in file order.
Tables == UNION {TablesOfLen(n) : n \in 0..MaxSegs}

\* The values of --fuzz, in milliseconds.
Fuzzes == {f * 750 : f \in 0..MaxFuzz}

None == <<>>

AudioPath == <<"clip", ".mp3">>

VideoPath == <<"clip", ".mp4">>

KeyPath == <<"key", ".csv">>

NoFile == [exists |-> FALSE, path |-> None, lines |-> <<>>]

-----------------------------------------------------------------------------
(* main(), one action per statement, and the ffmpeg subprocess.            *)

VARIABLES
    pc,         \* the statement main is at, "done" or "failed"
    failed_at,  \* the statement that raised, "" while none has
    args,       \* the result of configure()
    type,       \* 'audio' or 'video'
    input,      \* the media path
    ts_raw,     \* the rows import_data returned
    ts_ffmpeg,  \* the (start, end) pairs of parse_data_ffmpeg
    ts_keys,    \* the timeline of parse_data_key before conv_time
    ts_key,     \* the rows parse_data_key returned
    cmd,        \* the argument vector
    key_file,   \* the key file on disk
    proc,       \* the subprocess: "none", "running" or "exited"
    launches    \* how many subprocesses were started

vars == <<pc, failed_at, args, type, input, ts_raw, ts_ffmpeg, ts_keys, ts_key,
          cmd, key_file, proc, launches>>

\* main with the launch ahead of the key write.
main_order_launch_first(p) ==
    CASE p = "configure"         -> "type"
      [] p = "type"              -> "import_data"
      [] p = "import_data"       -> "parse_data_ffmpeg"
      [] p = "parse_data_ffmpeg" -> "parse_data_key"
      [] p = "parse_data_key"    -> "ts_to_cmd"
      [] p = "ts_to_cmd"         -> "Popen"
      [] p = "Popen"             -> "write_key"
      [] p = "write_key"         -> "return"
      [] p = "return"            -> "done"

\* The statement of main that follows statement p.
main_order(p) ==
    CASE p = "configure"         -> "type"
      [] p = "type"              -> "import_data"
      [] p = "import_data"       -> "parse_data_ffmpeg"
      [] p = "parse_data_ffmpeg" -> "parse_data_key"
      [] p = "parse_data_key"    -> "ts_to_cmd"
      [] p = "ts_to_cmd"         -> "write_key"
      [] p = "write_key"         -> "Popen"
      [] p = "Popen"             -> "return"
      [] p = "return"            -> "done"

Init ==
    /\ pc = "configure"
    /\ failed_at = ""
    /\ args = [audio |-> None, video |-> None, key |-> None, fuzz |-> 0]
    /\ type = ""
    /\ input = None
    /\ ts_raw = <<>>
    /\ ts_ffmpeg = <<>>
    /\ ts_keys = <<>>
    /\ ts_key = <<>>
    /\ cmd = <<>>
    /\ key_file = NoFile
    /\ proc = "none"
    /\ launches = 0

\* An uncaught exception in statement pc: the process ends.
Raise ==
    /\ pc' = "failed"
    /\ failed_at' = pc

Step ==
    /\ pc' = main_order(pc)
    /\ UNCHANGED failed_at

\* args = configure(): -a and -v exclude each other and neither is required.
Configure ==
    /\ pc = "configure"
    /\ \E av \in {"audio", "video", "neither"}, f \in Fuzzes :
         args' = [audio |-> IF av = "audio" THEN AudioPath ELSE None,
                  video |-> IF av = "video" THEN VideoPath ELSE None,
                  key   |-> KeyPath,
                  fuzz  |-> f]
    /\ Step
    /\ UNCHANGED <<type, input, ts_raw, ts_ffmpeg, ts_keys, ts_key, cmd,
                   key_file, proc, launches>>

\* if args.audio: ... elif args.video: ...; input = args.__getattribute__(type)
\* raises when neither was given (type is unbound).
SelectType ==
    /\ pc = "type"
    /\ IF args.audio # None
       THEN type' = "audio" /\ input' = args.audio /\ Step
       ELSE IF args.video # None
       THEN type' = "video" /\ input' = args.video /\ Step
       ELSE Raise /\ UNCHANGED <<type, input>>
    /\ UNCHANGED <<args, ts_raw, ts_ffmpeg, ts_keys, ts_key, cmd, key_file,
                   proc, launches>>

\* ts_raw = import_data(args.key); open raises when the table is unreadable.
ImportData ==
    /\ pc = "import_data"
    /\ \/ \E t \in Tables : ts_raw' = t /\ Step
       \/ Raise /\ UNCHANGED ts_raw
    /\ UNCHANGED <<args, type, input, ts_ffmpeg, ts_keys, ts_key, cmd, key_file,
                   proc, launches>>

\* ts_ffmpeg = parse_data_ffmpeg(ts_raw, args.fuzz)
ParseDataFfmpeg ==
    /\ pc = "parse_data_ffmpeg"
    /\ IF ParseRaises(ts_raw)
       THEN Raise /\ UNCHANGED ts_ffmpeg
       ELSE ts_ffmpeg' = parse_data_ffmpeg(ts_raw, args.fuzz) /\ Step
    /\ UNCHANGED <<args, type, input, ts_raw, ts_keys, ts_key, cmd, key_file,
                   proc, launches>>

\* ts_key = parse_data_key(ts_raw, args.fuzz); min raises on an empty table.
ParseDataKey ==
    /\ pc = "parse_data_key"
    /\ IF ParseRaises(ts_raw) \/ ts_raw = <<>>
       THEN Raise /\ UNCHANGED <<ts_keys, ts_key>>
       ELSE /\ ts_keys' = gap_closed(ts_raw, args.fuzz)
            /\ ts_key' = parse_data_key(ts_raw, args.fuzz)
            /\ Step
    /\ UNCHANGED <<args, type, input, ts_raw, ts_ffmpeg, cmd, key_file, proc,
                   launches>>

\* cmd = ts_to_cmd(ts_ffmpeg, input, type)
TsToCmd ==
    /\ pc = "ts_to_cmd"
    /\ cmd' = ts_to_cmd(ts_ffmpeg, input, type)
    /\ Step
    /\ UNCHANGED <<args, type, input, ts_raw, ts_ffmpeg, ts_keys, ts_key,
                   key_file, proc, launches>>

\* write_key(ts_key, args.key): open raises and leaves no file, a writerow
\* raises and leaves the lines written before it, or all lines are written.
WriteKey ==
    /\ pc = "write_key"
    /\ LET fileout == output_filename(args.key)
           lines   == key_lines(ts_key)
       IN  \/ Raise /\ UNCHANGED key_file
           \/ \E k \in 0..(Len(lines) - 1) :
                /\ key_file' = [exists |-> TRUE, path |-> fileout,
                                lines |-> SubSeq(lines, 1, k)]
                /\ Raise
           \/ /\ key_file' = [exists |-> TRUE, path |-> fileout, lines |-> lines]
              /\ Step
    /\ UNCHANGED <<args, type, input, ts_raw, ts_ffmpeg, ts_keys, ts_key, cmd,
                   proc, launches>>

\* subprocess.Popen(cmd, shell=False, close_fds=True): returns once the child
\* is started, or raises when ffmpeg cannot be started.
Popen ==
    /\ pc = "Popen"
    /\ \/ proc' = "running" /\ launches' = launches + 1 /\ Step
       \/ Raise /\ UNCHANGED <<proc, launches>>
    /\ UNCHANGED <<args, type, input, ts_raw, ts_ffmpeg, ts_keys, ts_key, cmd,
                   key_file>>

\* main returns and the interpreter exits; nothing waits for the child.
Return ==
    /\ pc = "return"
    /\ Step
    /\ UNCHANGED <<args, type, input, ts_raw, ts_ffmpeg, ts_keys, ts_key, cmd,
                   key_file, proc, launches>>

\* The ffmpeg subprocess finishes, whatever main is doing.
SubprocessExit ==
    /\ proc = "running"
    /\ proc' = "exited"
    /\ UNCHANGED <<pc, failed_at, args, type, input, ts_raw, ts_ffmpeg, ts_keys,
                   ts_key, cmd, key_file, launches>>

Next ==
    \/ Configure
    \/ SelectType
    \/ ImportData
    \/ ParseDataFfmpeg
    \/ ParseDataKey
    \/ TsToCmd
    \/ WriteKey
    \/ Popen
    \/ Return
    \/ SubprocessExit

Spec == Init /\ [][Next]_vars

-----------------------------------------------------------------------------
(* Where a run stands.                                                     *)

Rank(p) ==
    CASE p = "configure"         -> 1
      [] p = "type"              -> 2
      [] p = "import_data"       -> 3
      [] p = "parse_data_ffmpeg" -> 4
      [] p = "parse_data_key"    -> 5
      [] p = "ts_to_cmd"         -> 6
      [] p = "write_key"         -> 7
      [] p = "Popen"             -> 8
      [] p = "return"            -> 9
      [] p = "done"              -> 10

\* Statement p of main has returned.
Returned(p) == Rank(IF pc = "failed" THEN failed_at ELSE pc) > Rank(p)

\* parse_data_ffmpeg, parse_data_key, ts_to_cmd has just returned.  What it
\* returned is not assigned again, so a property of ts_ffmpeg, ts_keys, ts_key
\* or cmd that holds here holds for the rest of the run.
AfterFfmpeg == pc = "parse_data_key"

AfterKey == pc = "ts_to_cmd"

AfterCmd == pc = "write_key"

NSegs == Len(ts_raw)

\* The fuzzed start and end of row i, as the contract of fz states them.
FuzzedStart(i) == Max(0, parse_secs(ts_raw[i][1]).val - args.fuzz)

FuzzedEnd(i) == Max(0, parse_secs(ts_raw[i][2]).val + args.fuzz)

FuzzedDur(i) == FuzzedEnd(i) - FuzzedStart(i)

KeyDur(k) == ts_keys[k][2] - ts_keys[k][1]

\* The input rows in another order.
Permuted(p) == [k \in 1..NSegs |-> ts_raw[p[k]]]

-----------------------------------------------------------------------------
(* What ffmpeg's select/aselect with setpts=N/FRAME_RATE/TB makes of a     *)
(* list of between(t,start,end) terms: source time in at least one         *)
(* interval is kept and renumbered from 0 without holes.                   *)

Points(iv) == {iv[i][1] : i \in 1..Len(iv)} \cup {iv[i][2] : i \in 1..Len(iv)}

MinOf(S) == CHOOSE m \in S : \A x \in S : m <= x

MaxOf(S) == CHOOSE m \in S : \A x \in S : m >= x

\* Every instant of [a, b] is selected; a and b are neighbouring points.
Covered(iv, a, b) == \E i \in 1..Len(iv) : iv[i][1] <= a /\ b <= iv[i][2]

RECURSIVE KeptBetween(_, _, _)
\* The kept time between the points from and to.
KeptBetween(iv, from, to) ==
    IF from >= to THEN 0
    ELSE LET q == MinOf({x \in Points(iv) : x > from})
         IN  (IF Covered(iv, from, q) THEN q - from ELSE 0) + KeptBetween(iv, q, to)

\* The position in the output media of source time t, a point of iv.
OutPos(iv, t) == KeptBetween(iv, MinOf(Points(iv)), t)

TotalKept(iv) == OutPos(iv, MaxOf(Points(iv)))

-----------------------------------------------------------------------------
(* The claims.                                                             *)

\* C1: the key timeline is the timeline of the media the command produces:
\* some pairing of key rows with segments gives every key row the label of
\* its segment and the output positions of the segment's start and end, and
\* the last out_end is the total kept time.  Stated for tables in which no row
\* ends before it starts, so that overlapping rows alone decide it.
C1_KeyMatchesMedia ==
    (AfterCmd /\ \A i \in 1..NSegs : ts_ffmpeg[i][1] <= ts_ffmpeg[i][2]) =>
        /\ \E p \in Permutations(1..NSegs) :
             \A k \in 1..NSegs :
                /\ ts_keys[k][3] = ts_raw[p[k]][3]
                /\ ts_keys[k][1] = OutPos(ts_ffmpeg, ts_ffmpeg[p[k]][1])
                /\ ts_keys[k][2] = OutPos(ts_ffmpeg, ts_ffmpeg[p[k]][2])
        /\ ts_keys[NSegs][2] = TotalKept(ts_ffmpeg)

\* C2: the gap-closed timeline has no gaps and no overlaps: the first row
\* starts at 0 and every later row starts where the row before it ends.
C2_NoGapsNoOverlaps ==
    AfterKey =>
        /\ ts_keys[1][1] = 0
        /\ \A i \in 2..Len(ts_keys) : ts_keys[i][1] = ts_keys[i - 1][2]

\* Two rows with dead time between them in the source, adjacent in the key.
C2_Witness ==
    /\ AfterKey
    /\ Len(ts_keys) >= 2
    /\ \E i, j \in 1..NSegs :
         /\ ts_keys[1][3] = ts_raw[i][3]
         /\ ts_keys[2][3] = ts_raw[j][3]
         /\ FuzzedEnd(i) < FuzzedStart(j)
    /\ ts_keys[2][1] = ts_keys[1][2]
    /\ ts_keys[2][1] > 0

\* C3: every segment's output row has the segment's fuzzed duration: each
\* label of the input is on as many key rows as input rows, and every key row
\* with the label of row i lasts fuzzed end - fuzzed start of row i.
C3_DurationKept ==
    AfterKey =>
        /\ Len(ts_keys) = NSegs
        /\ \A i \in 1..NSegs :
             /\ Cardinality({k \in 1..Len(ts_keys) : ts_keys[k][3] = ts_raw[i][3]})
                  = Cardinality({j \in 1..NSegs : ts_raw[j][3] = ts_raw[i][3]})
             /\ \A k \in 1..Len(ts_keys) :
                  ts_keys[k][3] = ts_raw[i][3] => KeyDur(k) = FuzzedDur(i)

\* Rows out of order, a positive fuzz and a first start after 0: the rows are
\* fuzzed, re-based and sorted.
C3_Witness ==
    /\ AfterKey
    /\ NSegs >= 2
    /\ args.fuzz > 0
    /\ \A i \in 1..NSegs : FuzzedStart(i) > 0
    /\ ts_keys[1][3] # ts_raw[1][3]

\* C4: every value of the output timeline is >= 0 and every row has
\* out_end >= out_start, also for rows whose end is before their start.
C4_NonNegativeClamped ==
    AfterKey =>
        \A k \in 1..Len(ts_keys) :
            /\ ts_keys[k][1] >= 0
            /\ ts_keys[k][2] >= 0
            /\ ts_keys[k][2] >= ts_keys[k][1]

\* HH:MM:SS,mmm with the hours neither wrapped nor cut.
SrtText(ms) ==
    PadText(ms \div (3600 * 1000), 2) \o <<":">>
        \o PadText((ms \div (60 * 1000)) % 60, 2) \o <<":">>
        \o PadText((ms \div 1000) % 60, 2) \o <<",">>
        \o PadText(ms % 1000, 3)

\* C5: the key rows carry seconds-to-subtitle of the timeline: 0 is
\* "00:00:00,000" and every value > 0 is HH:MM:SS,mmm, at least 12 characters,
\* HH = hours (two digits or more, not wrapped at 24), three fractional digits.
C5_SecondsToSubtitle ==
    AfterKey =>
        \A k \in 1..Len(ts_keys) : \A j \in {1, 2} :
            /\ ts_keys[k][j] = 0 => ts_key[k][j] = ZeroSrt
            /\ ts_keys[k][j] > 0 =>
                 /\ Len(ts_key[k][j]) >= 12
                 /\ ts_key[k][j] = SrtText(ts_keys[k][j])

\* C6: conv_time round-trips on what parse_data_key emits: every emitted
\* string parses without error and formats back to itself, and every timeline
\* value formats and parses back to itself.  Stated for values >= 0.
C6_RoundTrip ==
    AfterKey =>
        \A k \in 1..Len(ts_keys) : \A j \in {1, 2} :
            ts_keys[k][j] >= 0 =>
                /\ ~conv_time_str(ts_key[k][j]).err
                /\ conv_time_num(conv_time_str(ts_key[k][j]).val) = ts_key[k][j]
                /\ conv_time_str(conv_time_num(ts_keys[k][j])).val = ts_keys[k][j]

\* C7: fz subtracts or adds the fuzz and clamps at 0, and both parsers apply
\* it to every start (subtracting) and every end (adding) of the parsed rows.
C7_FuzzClamp ==
    AfterFfmpeg =>
        /\ Len(ts_ffmpeg) = NSegs
        /\ \A i \in 1..NSegs :
             LET x == parse_secs(ts_raw[i][1]).val
                 y == parse_secs(ts_raw[i][2]).val
             IN  /\ fz(x, args.fuzz, "-") = Max(0, x - args.fuzz)
                 /\ fz(y, args.fuzz, "+") = y + args.fuzz
                 /\ fz(x, args.fuzz, "-") >= 0
                 /\ ts_ffmpeg[i] = <<Max(0, x - args.fuzz), y + args.fuzz>>
                 /\ tsconv_keys(ts_raw, args.fuzz)[i]
                      = <<Max(0, x - args.fuzz), y + args.fuzz, ts_raw[i][3]>>

\* A start closer to 0 than the fuzz: the clamp acts.
C7_Witness ==
    /\ AfterFfmpeg
    /\ \E i \in 1..NSegs :
         /\ parse_secs(ts_raw[i][1]).val > 0
         /\ parse_secs(ts_raw[i][1]).val < args.fuzz
         /\ ts_ffmpeg[i][1] = 0

\* C8: the key rows are the input segments ordered by fuzzed start, equal
\* starts in input order; and when the fuzzed starts are distinct, every
\* order of the input rows gives the same key rows.
C8_SortedStable ==
    AfterKey =>
        /\ Len(ts_key) = NSegs
        /\ \E p \in Permutations(1..NSegs) :
             /\ \A k \in 1..NSegs :
                  /\ ts_key[k][3] = unidecode(ts_raw[p[k]][3])
                  /\ KeyDur(k) = FuzzedDur(p[k])
             /\ \A k \in 1..(NSegs - 1) :
                  \/ FuzzedStart(p[k]) < FuzzedStart(p[k + 1])
                  \/ FuzzedStart(p[k]) = FuzzedStart(p[k + 1]) /\ p[k] < p[k + 1]
        /\ (\A i, j \in 1..NSegs : i # j => FuzzedStart(i) # FuzzedStart(j)) =>
             \A p \in Permutations(1..NSegs) :
                 parse_data_key(Permuted(p), args.fuzz) = ts_key

\* Rows given latest first, two of them with the same fuzzed start.
C8_Witness ==
    /\ AfterKey
    /\ \E i, j \in 1..NSegs : i < j /\ FuzzedStart(i) > FuzzedStart(j)
    /\ \E i, j \in 1..NSegs :
         /\ i < j
         /\ FuzzedStart(i) = FuzzedStart(j)
         /\ ts_raw[i][3] # ts_raw[j][3]

\* The text between the first and the last chunk of a filter argument.
Predicate(filter) == SubSeq(filter, 2, Len(filter) - 1)

\* The argument that follows flag in the argument vector, <<>> if none does.
ArgAfter(flag) ==
    IF \E i \in 1..(Len(cmd) - 1) : cmd[i] = <<flag>>
    THEN cmd[1 + CHOOSE i \in 1..(Len(cmd) - 1) : cmd[i] = <<flag>>]
    ELSE <<>>

\* C9: the predicate of the command has one between term per input row, in
\* row order, joined by '+', with the fuzzed absolute start and end; the video
\* and audio filters carry the same terms; video mode has both filters and
\* audio mode the audio filter only; and the durations of the terms are the
\* durations of the key rows, as multisets.
C9_CommandTerms ==
    AfterCmd =>
        LET af    == ArgAfter("-af")
            vf    == ArgAfter("-vf")
            terms == Fields(Predicate(af), {"+"})
        IN  /\ af[1] = "aselect='"
            /\ af[Len(af)] = "',asetpts=N/SR/TB"
            /\ Len(terms) = NSegs
            /\ \A i \in 1..NSegs :
                 terms[i] = <<"between(t,">> \o NumText(FuzzedStart(i)) \o <<",">>
                               \o NumText(FuzzedEnd(i)) \o <<")">>
            /\ type = "video" =>
                 /\ vf[1] = "select='"
                 /\ vf[Len(vf)] = "',setpts=N/FRAME_RATE/TB"
                 /\ Predicate(vf) = Predicate(af)
            /\ type = "audio" => vf = <<>>
            /\ \A k \in 1..NSegs :
                 Cardinality({i \in 1..NSegs : FuzzedDur(i) = KeyDur(k)})
                   = Cardinality({i \in 1..NSegs : KeyDur(i) = KeyDur(k)})

\* A video command for rows out of order, fuzzed, the first start after 0.
C9_Witness ==
    /\ AfterCmd
    /\ type = "video"
    /\ NSegs >= 2
    /\ args.fuzz > 0
    /\ FuzzedStart(1) > FuzzedStart(2)
    /\ FuzzedStart(2) > 0

KeyFileComplete == key_file.exists /\ key_file.lines = key_lines(ts_key)

\* C10: the subprocess is launched at most once and only after the key file is
\* completely written; a run that fails before or during the key write (a
\* timestamp of a wrong length, an empty table, an unwritable key path)
\* launches nothing, and one that fails before the key write leaves no key
\* file (nothing is launched or written until parse_data_key has returned, and
\* it returns only for a non-empty table whose timestamps all parse); and once
\* the subprocess is launched main can end at once, whether the subprocess is
\* still running or not.
C10_LaunchAfterKey ==
    /\ launches <= 1
    /\ (proc # "none") = (launches = 1)
    /\ launches = 1 => KeyFileComplete
    /\ (pc = "failed" /\ failed_at # "Popen") => launches = 0
    /\ (pc = "failed" /\ Rank(failed_at) < Rank("write_key")) => ~key_file.exists
    /\ ~Returned("parse_data_key") => (launches = 0 /\ ~key_file.exists)
    /\ AfterKey => (~ParseRaises(ts_raw) /\ ts_raw # <<>>)
    /\ (launches = 1 /\ pc # "done") => (pc = "return" /\ ENABLED Return)

\* main has ended and the subprocess is still running.
C10_Witness == pc = "done" /\ proc = "running" /\ KeyFileComplete

====
